---- MODULE Spec2Model ----
(***************************************************************************)
(* Model of src/utils/scripts/synthetic_capture.py: main() sweeps a       *)
(* simulated car around sign models and saves camera frames.              *)
(*                                                                         *)
(* Arithmetic.  Lengths are integers in fifths of a metre.  Angles are    *)
(* indices into the twelve directions of the 3-4-5 circle, for which      *)
(* 5*cos and 5*sin are integers, so cx = sx + radius*cos(ang) is exact    *)
(* when radius is a whole number of metres.  A quaternion is kept up to a *)
(* positive common factor of its z and w components.                      *)
(***************************************************************************)
EXTENDS Integers, Sequences, FiniteSets, TLC

VARIABLES
    heights, angles, shots_per_pose, radius,  \* args (lines 32-49)
    pc,                \* position of main(): the collaborator call it is at
    gi, si, hi, ai, s, \* loop positions: group, sign, height, angle, shot
    dirs,              \* directories made by ensure_dir
    sign_state,        \* last answer of get_state (sx, sy, sz)
    idx,               \* per-sign running index
    yaw,               \* yaw computed for the pose being commanded
    ms,                \* the ModelState message built for set_state
    filepath,          \* destination of the frame being saved
    cmds,              \* set_state calls made, in order
    writes,            \* cv2.imwrite calls made (paths), in order
    nfiles,            \* images saved for the sign being swept
    haveFiles,         \* signs with at least one saved image
    skipped,           \* signs get_state could not find
    sanity,            \* outcome of the sanity check: "pending", "ok", "failed"
    pose,              \* what happened at the pose last commanded
    shot               \* what happened at the shot last taken

vars == <<heights, angles, shots_per_pose, radius, pc, gi, si, hi, ai, s,
          dirs, sign_state, idx, yaw, ms, filepath, cmds, writes, nfiles,
          haveFiles, skipped, sanity, pose, shot>>

(* ---------------- bounds of the model ---------------- *)
MaxShots == 3
MaxRadius == 2
MaxCaptures == 4

(* ---------------- configuration ---------------- *)
output_dir == "dataset"

\* lines 61-67, with each sign list cut to its first signs
stop_signs == <<"STOP_A", "STOP_C">>
parking_signs == <<"PRK_P1">>
targets == << <<"STOP", stop_signs>>, <<"PARKING", parking_signs>> >>

HeightChoices == { <<1>>, <<1, 2>> }
AngleChoices == { <<0>>, <<-2, 1>>, <<4, 6>>, <<-5, 3>> }
PosChoices == { <<0, 0, 0>>, <<-7, 12, 3>> }

None == [none |-> TRUE]

(* ---------------- trigonometry on the 3-4-5 circle ---------------- *)
\* direction k of 0..11, counter-clockwise from the x axis, times 5
DirX == <<5, 4, 3, 0, -3, -4, -5, -4, -3, 0, 3, 4>>
DirY == <<0, 3, 4, 5, 4, 3, 0, -3, -4, -5, -4, -3>>

Cos5(a) == DirX[(a % 12) + 1]
Sin5(a) == DirY[(a % 12) + 1]

\* math.atan2: the angle in (-pi, pi], here -5..6, of the vector (x, y);
\* atan2(0, 0) = 0
Atan2(y, x) ==
    IF x = 0 /\ y = 0 THEN 0
    ELSE CHOOSE k \in -5..6 :
            /\ Cos5(k) * y - Sin5(k) * x = 0
            /\ Cos5(k) * x + Sin5(k) * y > 0

\* (0, 0, sin(yaw/2), cos(yaw/2)) up to a positive factor:
\* tan(yaw/2) = sin(yaw) / (1 + cos(yaw)), and yaw/2 = pi/2 at yaw = pi
quat_from_yaw(a) ==
    IF Cos5(a) = -5 THEN <<0, 0, 1, 0>>
    ELSE <<0, 0, Sin5(a), 5 + Cos5(a)>>

(* ---------------- paths ---------------- *)
Fmt04(n) ==
    IF n < 10 THEN "000" \o ToString(n)
    ELSE IF n < 100 THEN "00" \o ToString(n)
    ELSE IF n < 1000 THEN "0" \o ToString(n)
    ELSE ToString(n)

PathJoin(a, b) == a \o "/" \o b

label(g) == targets[g][1]
sign_list(g) == targets[g][2]
sign_name(g, i) == sign_list(g)[i]
out_label_dir(g) == PathJoin(output_dir, label(g))
\* filename without the sign's name
filename_NoSign(name, n) == "img_" \o Fmt04(n) \o ".png"
filename(name, n) == name \o "_" \o Fmt04(n) \o ".png"

(* ---------------- the loops of main(), lines 85-156 ---------------- *)
Loc(p, g, i, h, a, k) == [pc |-> p, gi |-> g, si |-> i, hi |-> h, ai |-> a, s |-> k]

RECURSIVE EnterGroup(_)
\* line 85-89: the next group with a sign in it, or the end of the run
EnterGroup(g) ==
    IF g > Len(targets) THEN Loc("done", g, 0, 0, 0, 0)
    ELSE IF Len(sign_list(g)) = 0 THEN EnterGroup(g + 1)
    ELSE Loc("get_state", g, 1, 0, 0, 0)

\* line 89: the next sign of the group, or the next group
AfterSign(g, i) ==
    IF i < Len(sign_list(g)) THEN Loc("get_state", g, i + 1, 0, 0, 0)
    ELSE EnterGroup(g + 1)

\* lines 102-103: the first pose of a sign
FirstPose(g, i) ==
    IF Len(heights) = 0 \/ Len(angles) = 0 THEN AfterSign(g, i)
    ELSE Loc("set_state", g, i, 1, 1, 0)

\* AfterPose with the two loops exchanged
AfterPose_HeightsInner(g, i, h, a) ==
    IF h < Len(heights) THEN Loc("set_state", g, i, h + 1, a, 0)
    ELSE IF a < Len(angles) THEN Loc("set_state", g, i, 1, a + 1, 0)
    ELSE AfterSign(g, i)

\* lines 102-103: angles are the inner loop, heights the outer one
AfterPose(g, i, h, a) ==
    IF a < Len(angles) THEN Loc("set_state", g, i, h, a + 1, 0)
    ELSE IF h < Len(heights) THEN Loc("set_state", g, i, h + 1, 1, 0)
    ELSE AfterSign(g, i)

\* line 136: the first shot of a pose
FirstShot(g, i, h, a) ==
    IF shots_per_pose > 0 THEN Loc("wait_frame", g, i, h, a, 0)
    ELSE AfterPose(g, i, h, a)

\* line 136: for s in range(shots_per_pose)
AfterShot(g, i, h, a, k) ==
    IF k + 1 < shots_per_pose THEN Loc("wait_frame", g, i, h, a, k + 1)
    ELSE AfterPose(g, i, h, a)

\* ComputeYaw with the vector taken from the sign to the car
ComputeYaw_Reversed(sst, ang) ==
    LET sx == sst[1]
        sy == sst[2]
        cx == sx + radius * Cos5(ang)
        cy == sy + radius * Sin5(ang)
    IN  Atan2(cy - sy, cx - sx)

\* lines 106-112
ComputeYaw(sst, ang) ==
    LET sx == sst[1]
        sy == sst[2]
        cx == sx + radius * Cos5(ang)
        cy == sy + radius * Sin5(ang)
    IN  Atan2(sy - cy, sx - cx)

\* lines 106-125
ComputePose(sst, h, ang) ==
    LET sx == sst[1]
        sy == sst[2]
        sz == sst[3]
        cx == sx + radius * Cos5(ang)
        cy == sy + radius * Sin5(ang)
        cz == sz + h
    IN  [model_name |-> "automobile", reference_frame |-> "world",
         position |-> <<cx, cy, cz>>,
         orientation |-> quat_from_yaw(ComputeYaw(sst, ang))]

\* the directories ensure_dir makes on the way from group g to loc (line 87)
DirsTo(g, loc) ==
    { out_label_dir(k) : k \in { j \in 1..Len(targets) : g < j /\ j <= loc.gi } }

\* move main() to loc from group g; arriving at a pose builds its message
Goto(loc, sst, made) ==
    /\ pc' = loc.pc
    /\ gi' = loc.gi
    /\ si' = loc.si
    /\ hi' = loc.hi
    /\ ai' = loc.ai
    /\ s' = loc.s
    /\ dirs' = dirs \cup made \cup DirsTo(gi, loc)
    /\ IF loc.pc = "set_state"
       THEN /\ yaw' = ComputeYaw(sst, angles[loc.ai])
            /\ ms' = ComputePose(sst, heights[loc.hi], angles[loc.ai])
       ELSE UNCHANGED <<yaw, ms>>

(* ---------------- initial state ---------------- *)
Init ==
    /\ heights \in HeightChoices
    /\ angles \in AngleChoices
    /\ shots_per_pose \in 1..MaxShots
    /\ Len(heights) * Len(angles) * shots_per_pose <= MaxCaptures
    /\ radius \in 1..MaxRadius
    /\ pc = "preflight"
    /\ gi = 0 /\ si = 0 /\ hi = 0 /\ ai = 0 /\ s = 0
    /\ dirs = {}
    /\ sign_state = <<>>
    /\ idx = 0
    /\ yaw = 0
    /\ ms = None
    /\ filepath = ""
    /\ cmds = <<>>
    /\ writes = <<>>
    /\ nfiles = 0
    /\ haveFiles = {}
    /\ skipped = {}
    /\ sanity = "pending"
    /\ pose = None
    /\ shot = None

(* ---------------- the steps of main() ---------------- *)
args == <<heights, angles, shots_per_pose, radius>>

\* lines 69-74, 83-89: the sanity check reads a frame; the sweep starts
PreflightOk ==
    /\ pc = "preflight"
    /\ sanity' = "ok"
    /\ Goto(EnterGroup(1), sign_state, {output_dir})
    /\ UNCHANGED <<args, sign_state, idx, filepath, cmds, writes, nfiles,
                   haveFiles, skipped, pose, shot>>

\* PreflightFail without the return of line 81
PreflightFail_NoReturn ==
    /\ pc = "preflight"
    /\ sanity' = "failed"
    /\ Goto(EnterGroup(1), sign_state, {output_dir})
    /\ UNCHANGED <<args, sign_state, idx, filepath, cmds, writes, nfiles,
                   haveFiles, skipped, pose, shot>>

\* lines 69-81: the sanity check times out; main() returns
PreflightFail ==
    /\ pc = "preflight"
    /\ sanity' = "failed"
    /\ pc' = "aborted"
    /\ dirs' = dirs \cup {output_dir}
    /\ UNCHANGED <<args, gi, si, hi, ai, s, sign_state, idx, yaw, ms, filepath,
                   cmds, writes, nfiles, haveFiles, skipped, pose, shot>>

\* lines 92, 97-125: get_state answers; idx = 0; the first pose is built
GetStateOk ==
    /\ pc = "get_state"
    /\ \E p \in PosChoices :
         /\ sign_state' = p
         /\ Goto(FirstPose(gi, si), p, {})
    /\ idx' = 0
    /\ nfiles' = 0
    /\ pose' = None
    /\ shot' = None
    /\ UNCHANGED <<args, filepath, cmds, writes, haveFiles, skipped, sanity>>

\* GetStateFail with break in place of continue
GetStateFail_Break ==
    /\ pc = "get_state"
    /\ skipped' = skipped \cup {sign_name(gi, si)}
    /\ Goto(EnterGroup(gi + 1), sign_state, {})
    /\ UNCHANGED <<args, sign_state, idx, filepath, cmds, writes, nfiles,
                   haveFiles, sanity, pose, shot>>

\* lines 92-95: get_state raises; the sign is skipped
GetStateFail ==
    /\ pc = "get_state"
    /\ skipped' = skipped \cup {sign_name(gi, si)}
    /\ Goto(AfterSign(gi, si), sign_state, {})
    /\ UNCHANGED <<args, sign_state, idx, filepath, cmds, writes, nfiles,
                   haveFiles, sanity, pose, shot>>

PoseRecord(ok) ==
    [key |-> <<gi, si, hi, ai>>, ok |-> ok, slept |-> ok, idx0 |-> idx,
     queries |-> 0, qfails |-> 0, wfails |-> 0, written |-> 0]

\* lines 128, 133-136: set_state succeeds; sleep; the first shot
SetStateOk ==
    /\ pc = "set_state"
    /\ cmds' = Append(cmds, <<gi, si, hi, ai>>)
    /\ pose' = PoseRecord(TRUE)
    /\ Goto(FirstShot(gi, si, hi, ai), sign_state, {})
    /\ UNCHANGED <<args, sign_state, idx, filepath, writes, nfiles, haveFiles,
                   skipped, sanity, shot>>

\* SetStateFail without the continue of line 131
SetStateFail_FallThrough ==
    /\ pc = "set_state"
    /\ cmds' = Append(cmds, <<gi, si, hi, ai>>)
    /\ pose' = [PoseRecord(FALSE) EXCEPT !.slept = TRUE]
    /\ Goto(FirstShot(gi, si, hi, ai), sign_state, {})
    /\ UNCHANGED <<args, sign_state, idx, filepath, writes, nfiles, haveFiles,
                   skipped, sanity, shot>>

\* SetStateFail with return in place of continue
SetStateFail_Abort ==
    /\ pc = "set_state"
    /\ cmds' = Append(cmds, <<gi, si, hi, ai>>)
    /\ pose' = PoseRecord(FALSE)
    /\ pc' = "aborted"
    /\ UNCHANGED <<args, gi, si, hi, ai, s, dirs, yaw, ms, sign_state, idx,
                   filepath, writes, nfiles, haveFiles, skipped, sanity, shot>>

\* lines 128-131: set_state raises; the pose is skipped
SetStateFail ==
    /\ pc = "set_state"
    /\ cmds' = Append(cmds, <<gi, si, hi, ai>>)
    /\ pose' = PoseRecord(FALSE)
    /\ Goto(AfterPose(gi, si, hi, ai), sign_state, {})
    /\ UNCHANGED <<args, sign_state, idx, filepath, writes, nfiles, haveFiles,
                   skipped, sanity, shot>>

\* lines 138-146: a frame arrives; idx += 1; the destination is built
WaitFrameOk ==
    /\ pc = "wait_frame"
    /\ idx' = idx + 1
    /\ filepath' = PathJoin(out_label_dir(gi), filename(sign_name(gi, si), idx'))
    /\ pose' = [pose EXCEPT !.queries = @ + 1]
    /\ shot' = [idx0 |-> idx, result |-> "frame", index |-> idx']
    /\ pc' = "imwrite"
    /\ UNCHANGED <<args, gi, si, hi, ai, s, dirs, sign_state, yaw, ms, cmds,
                   writes, nfiles, haveFiles, skipped, sanity>>

\* WaitFrameFail with the counter advanced all the same
WaitFrameFail_Counted ==
    /\ pc = "wait_frame"
    /\ idx' = idx + 1
    /\ pose' = [pose EXCEPT !.queries = @ + 1, !.qfails = @ + 1]
    /\ shot' = [idx0 |-> idx, result |-> "qfail", index |-> idx]
    /\ Goto(AfterShot(gi, si, hi, ai, s), sign_state, {})
    /\ UNCHANGED <<args, sign_state, filepath, cmds, writes, nfiles,
                   haveFiles, skipped, sanity>>

\* lines 138-142: no frame within the timeout; the shot is skipped
WaitFrameFail ==
    /\ pc = "wait_frame"
    /\ pose' = [pose EXCEPT !.queries = @ + 1, !.qfails = @ + 1]
    /\ shot' = [idx0 |-> idx, result |-> "qfail", index |-> idx]
    /\ Goto(AfterShot(gi, si, hi, ai, s), sign_state, {})
    /\ UNCHANGED <<args, sign_state, idx, filepath, cmds, writes, nfiles,
                   haveFiles, skipped, sanity>>

\* lines 149-156: the frame is saved
ImwriteOk ==
    /\ pc = "imwrite"
    /\ writes' = Append(writes, filepath)
    /\ nfiles' = nfiles + 1
    /\ haveFiles' = haveFiles \cup {sign_name(gi, si)}
    /\ pose' = [pose EXCEPT !.written = @ + 1]
    /\ shot' = [shot EXCEPT !.result = "saved"]
    /\ Goto(AfterShot(gi, si, hi, ai, s), sign_state, {})
    /\ UNCHANGED <<args, sign_state, idx, filepath, cmds, skipped, sanity>>

\* lines 149-154: saving raises; the shot is skipped
ImwriteFail ==
    /\ pc = "imwrite"
    /\ writes' = Append(writes, filepath)
    /\ pose' = [pose EXCEPT !.wfails = @ + 1]
    /\ shot' = [shot EXCEPT !.result = "wfail"]
    /\ Goto(AfterShot(gi, si, hi, ai, s), sign_state, {})
    /\ UNCHANGED <<args, sign_state, idx, filepath, cmds, nfiles, haveFiles,
                   skipped, sanity>>

Next ==
    \/ PreflightOk
    \/ PreflightFail
    \/ GetStateOk
    \/ GetStateFail
    \/ SetStateOk
    \/ SetStateFail
    \/ WaitFrameOk
    \/ WaitFrameFail
    \/ ImwriteOk
    \/ ImwriteFail

Spec == Init /\ [][Next]_vars

\* every collaborator call returns, so main() keeps taking steps; the radius
\* plays no part in the control flow and is fixed here
LiveInit == Init /\ radius = 1

LiveSpec == LiveInit /\ [][Next]_vars /\ WF_vars(Next)

(* ---------------- vocabulary of the properties ---------------- *)
Signs == UNION { { <<g, i>> : i \in 1..Len(sign_list(g)) } : g \in 1..Len(targets) }

NameOf(gs) == sign_name(gs[1], gs[2])

\* the image paths main() can form for a sign
PathsOf(gs) ==
    { PathJoin(out_label_dir(gs[1]), filename(NameOf(gs), n)) :
        n \in 1..(Len(heights) * Len(angles) * shots_per_pose) }

CmdsOf(gs) == { n \in 1..Len(cmds) : <<cmds[n][1], cmds[n][2]>> = gs }

LexLess(k1, k2) ==
    \/ k1[1] < k2[1]
    \/ k1[1] = k2[1] /\ k1[2] < k2[2]
    \/ k1[1] = k2[1] /\ k1[2] = k2[2] /\ k1[3] < k2[3]
    \/ k1[1] = k2[1] /\ k1[2] = k2[2] /\ k1[3] = k2[3] /\ k1[4] < k2[4]

\* the pose last commanded is over: its command failed or its shots are done
PoseOver == pose # None /\ (pose.ok => pc \notin {"wait_frame", "imwrite"})

(* ---------------- C1 ---------------- *)
\* C1: when the sanity check fails the run ends at once, with no image
\* written and no set_state call made.
C1_PreflightAbort ==
    sanity = "failed" =>
        /\ pc = "aborted"
        /\ cmds = <<>>
        /\ writes = <<>>
        /\ nfiles = 0
        /\ haveFiles = {}

C1_Witness == sanity = "failed" /\ pc = "aborted" /\ output_dir \in dirs

(* ---------------- C2 ---------------- *)
\* C2: the k-th image saved for a sign carries index k: the indices of the
\* saved images of a sign are 1, 2, ..., k in write order, whatever failed.
C2_IndicesContiguous ==
    (shot # None /\ shot.result = "saved") => shot.index = nfiles

(* ---------------- C3 ---------------- *)
\* C3: after a failed save the index counter has the value it had before
\* the shot's frame query.
C3_WriteFailKeepsIndex ==
    (shot # None /\ shot.result = "wfail") => idx = shot.idx0

(* ---------------- C4 ---------------- *)
\* C4: a pose whose command succeeded gets exactly shots_per_pose frame
\* queries; with f failed queries and no failed save it yields
\* shots_per_pose - f images and advances the counter by shots_per_pose - f.
C4_ShotsPerPose ==
    (PoseOver /\ pose.ok) =>
        /\ pose.queries = shots_per_pose
        /\ pose.wfails = 0 =>
             /\ pose.written = shots_per_pose - pose.qfails
             /\ idx - pose.idx0 = shots_per_pose - pose.qfails

C4_Witness ==
    /\ PoseOver /\ pose.ok
    /\ shots_per_pose = 3 /\ pose.qfails = 1 /\ pose.wfails = 0
    /\ pose.written = 2 /\ idx - pose.idx0 = 2

(* ---------------- C5 ---------------- *)
\* C5: a sign get_state cannot find gets no set_state call, no frame query
\* and no image; the run goes on, and every other sign is still swept.
C5_MissingSignSkipped ==
    /\ \A gs \in Signs :
         NameOf(gs) \in skipped =>
            /\ CmdsOf(gs) = {}
            /\ \A n \in 1..Len(writes) : writes[n] \notin PathsOf(gs)
            /\ NameOf(gs) \notin haveFiles
            /\ pose # None => <<pose.key[1], pose.key[2]>> # gs
    /\ skipped # {} => pc # "aborted"
    /\ pc = "done" =>
         \A gs \in Signs : NameOf(gs) \notin skipped => CmdsOf(gs) # {}

C5_Witness ==
    /\ pc = "done"
    /\ skipped = {"STOP_A"}
    /\ haveFiles = {"STOP_C", "PRK_P1"}

(* ---------------- C6 ---------------- *)
\* C6: a failed set_state skips its pose only: no sleep, no frame query, no
\* save, the counter unchanged, and main() stands at the next angle (or
\* the next height, or the next sign).
C6_FailedPoseSkipped ==
    (pose # None /\ ~pose.ok) =>
        /\ ~pose.slept
        /\ pose.queries = 0 /\ pose.written = 0 /\ pose.wfails = 0
        /\ idx = pose.idx0
        /\ LET k == pose.key
           IN  IF k[4] < Len(angles)
               THEN pc = "set_state" /\ <<gi, si, hi, ai>> = <<k[1], k[2], k[3], k[4] + 1>>
               ELSE IF k[3] < Len(heights)
               THEN pc = "set_state" /\ <<gi, si, hi, ai>> = <<k[1], k[2], k[3] + 1, 1>>
               ELSE pc \in {"get_state", "done"}

C6_Witness ==
    /\ pose # None /\ ~pose.ok
    /\ pc = "set_state" /\ ai = 2
    /\ idx > 0

(* ---------------- C7 ---------------- *)
\* C7: the set_state calls of a run are strictly increasing in the order
\* (group, sign, height, angle).
C7_CommandOrder ==
    \A m, n \in 1..Len(cmds) : m < n => LexLess(cmds[m], cmds[n])

C7_Witness ==
    /\ pc = "done"
    /\ skipped = {"STOP_C"}
    /\ \E n \in 1..Len(cmds) : cmds[n] = <<2, 1, 2, 2>>
    /\ \E n \in 1..Len(cmds) : cmds[n] = <<1, 1, 1, 2>>

(* ---------------- C8 ---------------- *)
AllCommandedOnce ==
    \A gs \in Signs :
        NameOf(gs) \notin skipped =>
            \A h \in 1..Len(heights), a \in 1..Len(angles) :
                Cardinality({ n \in CmdsOf(gs) : cmds[n] = <<gs[1], gs[2], h, a>> }) = 1

\* C8: once the sanity check has passed, the run reaches its normal end
\* whatever fails, having made exactly one set_state call for each
\* (height, angle) of every sign that was found.
C8_RunCompletes ==
    (sanity = "ok") ~> (pc = "done" /\ AllCommandedOnce)

C8_Witness ==
    /\ pc = "done" /\ sanity = "ok" /\ AllCommandedOnce
    /\ skipped = {"STOP_A"}
    /\ pose # None /\ ~pose.ok
    /\ "STOP_C" \in haveFiles

(* ---------------- C9 ---------------- *)
\* C9: the commanded position is the sign's plus radius in direction ang,
\* and (cos yaw, sin yaw) is parallel to, and points the same way as, the
\* vector from the car to the sign; the quaternion turns the x axis there.
C9_YawFacesSign ==
    pc = "set_state" =>
        LET sx == sign_state[1]
            sy == sign_state[2]
            cx == ms.position[1]
            cy == ms.position[2]
            qz == ms.orientation[3]
            qw == ms.orientation[4]
            fx == qw * qw - qz * qz
            fy == 2 * qw * qz
        IN  /\ cx = sx + radius * Cos5(angles[ai])
            /\ cy = sy + radius * Sin5(angles[ai])
            /\ Cos5(yaw) * (sy - cy) - Sin5(yaw) * (sx - cx) = 0
            /\ Cos5(yaw) * (sx - cx) + Sin5(yaw) * (sy - cy) > 0
            /\ fx * (sy - cy) - fy * (sx - cx) = 0
            /\ fx * (sx - cx) + fy * (sy - cy) > 0

C9_Witness ==
    /\ pc = "set_state"
    /\ sign_state = <<-7, 12, 3>>
    /\ radius = 2 /\ angles[ai] = -2
    /\ ms.position = <<-1, 4, 4>>
    /\ yaw = 4

(* ---------------- C10 ---------------- *)
\* C10: no two cv2.imwrite calls of a run name the same path, and the path
\* about to be written has not been written before.
C10_FreshPaths ==
    /\ \A m, n \in 1..Len(writes) : m < n => writes[m] # writes[n]
    /\ pc = "imwrite" => \A n \in 1..Len(writes) : writes[n] # filepath

C10_Witness ==
    /\ pc = "imwrite" /\ gi = 2
    /\ Len(writes) >= 3
    /\ haveFiles = {"STOP_A", "STOP_C"}
    /\ \E n \in 1..Len(writes) : writes[n] = "dataset/STOP/STOP_A_0002.png"
    /\ filepath = "dataset/PARKING/PRK_P1_0002.png"

====
